---- MODULE Spec2Model ----
(***************************************************************************)
(* Milestone label layout of pv7x.                                         *)
(*                                                                         *)
(*   Spec          one call of layoutMilestonesCore, the collapse/expand   *)
(*                 optimiser (src/components/TimelinePortrait.tsx), one    *)
(*                 step per iteration of its collapse loop                 *)
(*   SpecPortrait  the TimelinePortrait component: each render runs        *)
(*                 layoutPortraitMilestones and computeGanttBars           *)
(*   SpecRows      the landscape lane assignment assignRows (TimelineView) *)
(*   SpecView      App and TimelineView in a landscape viewport: the memos *)
(*                 from the configured milestones down to the laid out     *)
(*                 point milestones and Gantt bars                         *)
(*   SpecChat      the /api/chat handler of the worker and the GitHub file *)
(*                 it edits, one step per await of a request               *)
(*                                                                         *)
(* Pixel quantities are integers. The inputs are drawn from sets on which  *)
(* the source's floating point results differ from these integers by       *)
(* rounding error only and no comparison of the code sits on a boundary.   *)
(***************************************************************************)
EXTENDS Integers, Sequences, FiniteSets, TLC

VARIABLES
    \* one call of layoutMilestonesCore
    unsortedMilestones, \* argument: Seq of LayoutInput
    maxWidth,           \* opts.maxWidth
    expandedWidth,      \* opts.expandedWidth ?? 120
    collapsedWidth,     \* opts.collapsedWidth ?? 24
    layouts,            \* the mutable layouts array
    iter,               \* loop counter of the collapse loop
    passes,             \* number of runPass() calls made so far in this call
    pc,                 \* "call" | "loop" | "returned" | "thrown" | "idle"
    ok,                 \* the ok flag of the returned value
    \* the TimelinePortrait component
    windowSize,         \* prop windowSize: [width, height]
    portraitLayout,     \* state portraitLayout: Null or [width, height]
    baseMilestones,     \* prop baseMilestones: Seq of [index, position, color]
    rangeMilestoneLookup, \* prop: the entries [label, startIndex, endIndex, color]
    milestones,         \* what the last render got from layoutPortraitMilestones
    coreOk,             \* the ok flag the core gave that call (dropped by the caller)
    ganttBars,          \* what the last render got from computeGanttBars
    effectDeps,         \* the deps [width, height] useLayoutEffect last ran with
    view,               \* "dirty" | "rendered" | "crashed" | "idle"
    \* the landscape lane assignment
    rowInput,           \* argument milestones of assignRows: Seq of [index, position]
    containerWidth,     \* argument containerWidth
    textWidth,          \* what measureTextWidth gives for each label of rowInput
    hasEmoji,           \* whether annotationEmojis has the labels
    rowResult,          \* the value assignRows returned last
    screenHeight,       \* windowSize.height of that render
    portraitMilestones, \* memo portraitMilestones: what assignPortraitColumns returned
    \* App and TimelineView
    configMilestones,   \* CONFIG.milestones
    randomMilestones,   \* state randomMilestones: Null or a list
    days,               \* memo days of App, the prop of TimelineView
    landscapeMilestones, \* memo landscapeMilestones
    landscapeGanttBars, \* memo landscapeGanttBars
    memoDeps,           \* Null, or the deps the memos were last computed with
    appView,            \* "dirty" | "rendered" | "idle"
    \* the worker
    github,             \* the versions of src/config.json on main, oldest first
    requests            \* per request: where its handler is, and what it holds

coreVars == <<unsortedMilestones, maxWidth, expandedWidth, collapsedWidth,
              layouts, iter, passes, pc, ok>>
portraitVars == <<windowSize, portraitLayout, baseMilestones,
                  rangeMilestoneLookup, milestones, coreOk, ganttBars,
                  effectDeps, view>>
rowVars == <<rowInput, containerWidth, textWidth, hasEmoji, rowResult,
             screenHeight, portraitMilestones>>
viewVars == <<configMilestones, randomMilestones, days, landscapeMilestones,
              landscapeGanttBars, memoDeps, appView>>
chatVars == <<github, requests>>

vars == <<coreVars, portraitVars, rowVars, viewVars, chatVars>>

----------------------------------------------------------------------------
(* Bounds of the model *)

MaxItems == 3
MaxLaneItems == 4

(* Input domains of the core: chips of the callers' height at three tops, one
   of which conflicts with both others, and a tall item that spans them all. *)
Shapes == {<<0, 24>>, <<20, 24>>, <<40, 24>>, <<0, 60>>}
MaxWidths == {20, 24, 50, 148, 176}
ExpandedWidths == {120}
CollapsedWidths == {24}

(* Program constants *)
MILESTONE_GAP == 4
EXPANDED_WIDTH == 120
COLLAPSED_WIDTH == 24

LayoutInput ==
    {[top |-> sh[1], height |-> sh[2], isColoured |-> c] : sh \in Shapes, c \in BOOLEAN}

(* The three-milestone scenario: items at the time positions 10, 12 and 90, in
   any order and colouring, in a container where the chips at 10 and 12
   overlap vertically and the chip at 90 overlaps neither; extent 60, expanded
   width 80 and collapsed width 24.  The tops are computed as
   layoutPortraitMilestones computes them for its chips 24 high. *)
ScenarioPositions == {10, 12, 90}
ScenarioHeights == {200, 400, 800}
ScenarioOptions == [maxWidth |-> 60, expandedWidth |-> 80, collapsedWidth |-> 24]
ScenarioItem(position, containerHeight, c) ==
    [top |-> (position * containerHeight) \div 100 - 24 \div 2,
     height |-> 24, isColoured |-> c]
ScenarioLists ==
    UNION {{l \in [1..3 -> {ScenarioItem(p, h, c) : p \in ScenarioPositions, c \in BOOLEAN}] :
               {l[i].top : i \in 1..3} = {ScenarioItem(p, h, FALSE).top : p \in ScenarioPositions}}
           : h \in ScenarioHeights}

(* Four chips under a narrow expanded width: with 44 a collapsed chip no
   longer fits between two others in front of an item that was pushed behind
   an expanded one (with the default 120 this takes seven items). *)
NarrowOptions == [expandedWidth |-> 44, collapsedWidth |-> 24]
NarrowMaxWidths == {95, 100}
NarrowLists == [1..4 -> {m \in LayoutInput : m.height = 24}]

----------------------------------------------------------------------------
(* Pure helpers of layoutMilestonesCore *)

overlapsY(a, b) ==
    ~(a.top + a.height + MILESTONE_GAP <= b.top
        \/ b.top + b.height + MILESTONE_GAP <= a.top)

\* Array.prototype.sort with (a, b) => a.top - b.top : a stable sort.
RECURSIVE InsertByTop(_, _)
InsertByTop(x, s) ==
    IF s = <<>> THEN <<x>>
    ELSE IF Head(s).top <= x.top THEN <<Head(s)>> \o InsertByTop(x, Tail(s))
    ELSE <<x>> \o s

RECURSIVE SortByTop(_)
SortByTop(s) ==
    IF s = <<>> THEN <<>>
    ELSE InsertByTop(s[Len(s)], SortByTop(SubSeq(s, 1, Len(s) - 1)))

\* [...unsortedMilestones].sort(...).map(ms => ({...ms, left: 0, width, collapsed: false}))
InitialLayouts(ms, ew) ==
    LET sorted == SortByTop(ms)
    IN [i \in 1..Len(sorted) |->
          [left |-> 0, width |-> ew, collapsed |-> FALSE] @@ sorted[i]]

\* others.sort((a, b) => a.start - b.start)
RECURSIVE InsertByStart(_, _)
InsertByStart(x, s) ==
    IF s = <<>> THEN <<x>>
    ELSE IF Head(s).start <= x.start THEN <<Head(s)>> \o InsertByStart(x, Tail(s))
    ELSE <<x>> \o s

RECURSIVE SortByStart(_)
SortByStart(s) ==
    IF s = <<>> THEN <<>>
    ELSE InsertByStart(s[Len(s)], SortByStart(SubSeq(s, 1, Len(s) - 1)))

\* Mutation of Others: every earlier item counts, Y-overlapping or not.
RECURSIVE OthersAll(_, _, _)
OthersAll(ls, i, j) ==
    IF j >= i THEN <<>>
    ELSE <<[start |-> ls[j].left, end |-> ls[j].left + ls[j].width]>>
            \o OthersAll(ls, i, j + 1)

\* The spans of the earlier (j < i) items that overlap item i vertically.
RECURSIVE Others(_, _, _)
Others(ls, i, j) ==
    IF j >= i THEN <<>>
    ELSE (IF overlapsY(ls[i], ls[j])
            THEN <<[start |-> ls[j].left, end |-> ls[j].left + ls[j].width]>>
            ELSE <<>>) \o Others(ls, i, j + 1)

\* Mutation of Slide: the gap is not kept (the spans may touch).
RECURSIVE SlideNoGap(_, _, _)
SlideNoGap(x, w, others) ==
    IF others = <<>> THEN x
    ELSE LET o == Head(others)
         IN IF x + w <= o.start THEN x
            ELSE SlideNoGap(IF x < o.end THEN o.end ELSE x, w, Tail(others))

\* Mutation of Slide: the loop never breaks at a span that starts far enough
\* to the right, it moves past every span.
RECURSIVE SlideNoBreak(_, _, _)
SlideNoBreak(x, w, others) ==
    IF others = <<>> THEN x
    ELSE LET o == Head(others)
         IN SlideNoBreak(IF x < o.end + MILESTONE_GAP THEN o.end + MILESTONE_GAP ELSE x,
                         w, Tail(others))

\* let x = 0; for (const {start, end} of others) { break / push right }
RECURSIVE Slide(_, _, _)
Slide(x, w, others) ==
    IF others = <<>> THEN x
    ELSE LET o == Head(others)
         IN IF x + w + MILESTONE_GAP <= o.start THEN x
            ELSE Slide(IF x < o.end + MILESTONE_GAP THEN o.end + MILESTONE_GAP ELSE x,
                       w, Tail(others))

\* The for loop of runPass from index i on: every item gets its left.
RECURSIVE PlaceFrom(_, _)
PlaceFrom(ls, i) ==
    IF i > Len(ls) THEN ls
    ELSE LET x == Slide(0, ls[i].width, SortByStart(Others(ls, i, 1)))
         IN PlaceFrom([ls EXCEPT ![i].left = x], i + 1)

Right(m) == m.left + m.width

\* Mutation of MaxRightOf: only the last item's right edge is kept.
MaxRightLastOnly(ls) ==
    IF Len(ls) = 0 THEN 0
    ELSE IF Right(ls[Len(ls)]) > 0 THEN Right(ls[Len(ls)]) ELSE 0

\* maxRight as accumulated by runPass, starting from 0.
RECURSIVE MaxRightOf(_)
MaxRightOf(ls) ==
    IF ls = <<>> THEN 0
    ELSE LET r == MaxRightOf(SubSeq(ls, 1, Len(ls) - 1))
         IN IF Right(ls[Len(ls)]) > r THEN Right(ls[Len(ls)]) ELSE r

\* runPass(): the layouts after the pass; its return value is MaxRightOf of them.
runPass(ls) == PlaceFrom(ls, 1)

----------------------------------------------------------------------------
(* findCandidate *)

SeqContains(s, x) == \E k \in 1..Len(s) : s[k] = x

\* layouts.filter(...) as the sequence of the indices kept (those in S), in
\* array order.
RECURSIVE FilterIdx(_, _, _)
FilterIdx(n, i, S) ==
    IF i > n THEN <<>>
    ELSE (IF i \in S THEN <<i>> ELSE <<>>) \o FilterIdx(n, i + 1, S)

\* arr.filter(...) on a sequence of indices: those in S, in arr's order.
RECURSIVE SelectIdx(_, _)
SelectIdx(list, S) ==
    IF list = <<>> THEN <<>>
    ELSE (IF Head(list) \in S THEN <<Head(list)>> ELSE <<>>) \o SelectIdx(Tail(list), S)

\* The Set `candidates` in insertion order: for ms of atMaxRight, for other of pool.
RECURSIVE AddInner(_, _, _, _)
AddInner(ls, m, pool, acc) ==
    IF pool = <<>> THEN acc
    ELSE LET o == Head(pool)
             acc2 == IF overlapsY(ls[m], ls[o]) /\ ~SeqContains(acc, o)
                       THEN Append(acc, o) ELSE acc
         IN AddInner(ls, m, Tail(pool), acc2)

RECURSIVE AddOuter(_, _, _, _)
AddOuter(ls, atMax, pool, acc) ==
    IF atMax = <<>> THEN acc
    ELSE AddOuter(ls, Tail(atMax), pool, AddInner(ls, Head(atMax), pool, acc))

\* Mutation of LeftmostFrom: of several items with the smallest left the last
\* one is kept.
RECURSIVE LeftmostFromLast(_, _, _)
LeftmostFromLast(ls, list, best) ==
    IF list = <<>> THEN best
    ELSE LeftmostFromLast(ls, Tail(list),
                          IF ls[Head(list)].left <= ls[best].left THEN Head(list) ELSE best)

\* findLeftmost: the first element of list with the smallest left.
RECURSIVE LeftmostFrom(_, _, _)
LeftmostFrom(ls, list, best) ==
    IF list = <<>> THEN best
    ELSE LeftmostFrom(ls, Tail(list),
                      IF ls[Head(list)].left < ls[best].left THEN Head(list) ELSE best)

findLeftmost(ls, list) == LeftmostFrom(ls, list, list[1])

Expanded(ls) == {i \in 1..Len(ls) : ~ls[i].collapsed}
AtMaxRight(ls, maxRight) == {i \in 1..Len(ls) : Right(ls[i]) = maxRight}
Coloured(ls) == {i \in 1..Len(ls) : ls[i].isColoured}
NonColoured(ls) == {i \in 1..Len(ls) : ~ls[i].isColoured}

\* Mutation of findCandidate: every item, collapsed or not, can be picked.
findCandidateAnyItem(ls, maxRight) ==
    LET pool == FilterIdx(Len(ls), 1, 1..Len(ls))
        atMaxRight == FilterIdx(Len(ls), 1, AtMaxRight(ls, maxRight))
        arr == AddOuter(ls, atMaxRight, pool, <<>>)
        nonColoured == SelectIdx(arr, NonColoured(ls))
        coloured == SelectIdx(arr, Coloured(ls))
    IN IF pool = <<>> THEN 0
       ELSE IF arr = <<>> THEN 0
       ELSE IF nonColoured # <<>> THEN findLeftmost(ls, nonColoured)
       ELSE findLeftmost(ls, coloured)

\* Mutation of findCandidate: the colour is ignored, the leftmost candidate goes.
findCandidateColourBlind(ls, maxRight) ==
    LET expanded == FilterIdx(Len(ls), 1, Expanded(ls))
        atMaxRight == FilterIdx(Len(ls), 1, AtMaxRight(ls, maxRight))
        arr == AddOuter(ls, atMaxRight, expanded, <<>>)
    IN IF expanded = <<>> THEN 0
       ELSE IF arr = <<>> THEN 0
       ELSE findLeftmost(ls, arr)

\* Mutation of findCandidate: every expanded item is a candidate, whether it
\* Y-overlaps an item at the maximal right edge or not.
findCandidateAllExpanded(ls, maxRight) ==
    LET expanded == FilterIdx(Len(ls), 1, Expanded(ls))
        nonColoured == SelectIdx(expanded, NonColoured(ls))
        coloured == SelectIdx(expanded, Coloured(ls))
    IN IF expanded = <<>> THEN 0
       ELSE IF nonColoured # <<>> THEN findLeftmost(ls, nonColoured)
       ELSE findLeftmost(ls, coloured)

\* findCandidate(): the index of the item to collapse, 0 for null.
findCandidate(ls, maxRight) ==
    LET expanded == FilterIdx(Len(ls), 1, Expanded(ls))
        atMaxRight == FilterIdx(Len(ls), 1, AtMaxRight(ls, maxRight))
        arr == AddOuter(ls, atMaxRight, expanded, <<>>)
        nonColoured == SelectIdx(arr, NonColoured(ls))
        coloured == SelectIdx(arr, Coloured(ls))
    IN IF expanded = <<>> THEN 0
       ELSE IF arr = <<>> THEN 0
       ELSE IF nonColoured # <<>> THEN findLeftmost(ls, nonColoured)
       ELSE IF coloured # <<>> THEN findLeftmost(ls, coloured)
       ELSE arr[1]

----------------------------------------------------------------------------
(* layoutMilestonesCore as a state machine: one step per loop iteration *)

\* Mutation of ConfigError: a maxWidth equal to collapsedWidth is rejected too.
ConfigErrorStrict(cw, mw) == cw >= mw

\* Mutation of ConfigError: the expanded width is compared instead.
ConfigErrorExpanded(cw, mw) == EXPANDED_WIDTH > mw

\* if (collapsedWidth > maxWidth) throw
ConfigError(cw, mw) == cw > mw

\* if (maxRight <= maxWidth) return {layouts, ok: true}
Fits(maxRight, mw) == maxRight <= mw

\* Mutation of LoopBody: the candidate is looked for before the fit is tested.
LoopBodyCandidateFirst(ls, mw, cw) ==
    LET placed == runPass(ls)
        maxRight == MaxRightOf(placed)
        candidate == findCandidate(placed, maxRight)
    IN IF candidate = 0 THEN [layouts |-> placed, outcome |-> "fail"]
       ELSE IF Fits(maxRight, mw) THEN [layouts |-> placed, outcome |-> "ok"]
       ELSE [layouts |-> [placed EXCEPT ![candidate].collapsed = TRUE,
                                        ![candidate].width = cw],
             outcome |-> "continue"]

\* Mutation of LoopBody: when no candidate is left the items are handed back
\* as they were before the first pass, all expanded.
LoopBodyResetOnFail(ls, mw, cw) ==
    LET placed == runPass(ls)
        maxRight == MaxRightOf(placed)
        candidate == findCandidate(placed, maxRight)
    IN IF Fits(maxRight, mw) THEN [layouts |-> placed, outcome |-> "ok"]
       ELSE IF candidate = 0
         THEN [layouts |-> [i \in 1..Len(placed) |->
                              [placed[i] EXCEPT !.left = 0, !.width = EXPANDED_WIDTH,
                                                !.collapsed = FALSE]],
               outcome |-> "fail"]
       ELSE [layouts |-> [placed EXCEPT ![candidate].collapsed = TRUE,
                                        ![candidate].width = cw],
             outcome |-> "continue"]

\* Lines 132-180: the body of the collapse loop on the current layouts.
\* outcome "ok" / "fail": the two returns; "continue": a candidate was collapsed.
LoopBody(ls, mw, cw) ==
    LET placed == runPass(ls)
        maxRight == MaxRightOf(placed)
        candidate == findCandidate(placed, maxRight)
    IN IF Fits(maxRight, mw) THEN [layouts |-> placed, outcome |-> "ok"]
       ELSE IF candidate = 0 THEN [layouts |-> placed, outcome |-> "fail"]
       ELSE [layouts |-> [placed EXCEPT ![candidate].collapsed = TRUE,
                                        ![candidate].width = cw],
             outcome |-> "continue"]

\* for (let iter = 0; iter < n + 2; iter++) { ... } return {layouts, ok: false}
RECURSIVE CollapseLoop(_, _, _, _)
CollapseLoop(ls, it, mw, cw) ==
    IF it < Len(ls) + 2
      THEN LET b == LoopBody(ls, mw, cw)
           IN IF b.outcome = "continue" THEN CollapseLoop(b.layouts, it + 1, mw, cw)
              ELSE [thrown |-> FALSE, layouts |-> b.layouts, ok |-> b.outcome = "ok"]
      ELSE [thrown |-> FALSE, layouts |-> ls, ok |-> FALSE]

\* The whole call, as its callers see it: the returned value, or the throw.
layoutMilestonesCore(ms, mw, ew, cw) ==
    IF ConfigError(cw, mw) THEN [thrown |-> TRUE, layouts |-> <<>>, ok |-> FALSE]
    ELSE CollapseLoop(InitialLayouts(ms, ew), 0, mw, cw)

Null == [null |-> TRUE]

PortraitIdle ==
    /\ windowSize = Null
    /\ portraitLayout = Null
    /\ baseMilestones = <<>>
    /\ rangeMilestoneLookup = <<>>
    /\ milestones = <<>>
    /\ coreOk = TRUE
    /\ ganttBars = <<>>
    /\ effectDeps = Null
    /\ view = "idle"

RowsIdle ==
    /\ rowInput = <<>>
    /\ containerWidth = 0
    /\ textWidth = <<>>
    /\ hasEmoji = FALSE
    /\ rowResult = <<>>
    /\ screenHeight = 0
    /\ portraitMilestones = <<>>

ViewIdle ==
    /\ configMilestones = <<>>
    /\ randomMilestones = Null
    /\ days = <<>>
    /\ landscapeMilestones = <<>>
    /\ landscapeGanttBars = <<>>
    /\ memoDeps = Null
    /\ appView = "idle"

ChatIdle ==
    /\ github = <<>>
    /\ requests = <<>>

CoreIdle ==
    /\ unsortedMilestones = <<>>
    /\ maxWidth = 0
    /\ expandedWidth = 0
    /\ collapsedWidth = 0
    /\ layouts = <<>>
    /\ iter = 0
    /\ passes = 0
    /\ pc = "idle"
    /\ ok = FALSE

Init ==
    /\ \/ /\ unsortedMilestones \in UNION {[1..n -> LayoutInput] : n \in 0..MaxItems}
          /\ maxWidth \in MaxWidths
          /\ expandedWidth \in ExpandedWidths
          /\ collapsedWidth \in CollapsedWidths
       \/ /\ unsortedMilestones \in ScenarioLists
          /\ maxWidth = ScenarioOptions.maxWidth
          /\ expandedWidth = ScenarioOptions.expandedWidth
          /\ collapsedWidth = ScenarioOptions.collapsedWidth
       \/ /\ unsortedMilestones \in NarrowLists
          /\ maxWidth \in NarrowMaxWidths
          /\ expandedWidth = NarrowOptions.expandedWidth
          /\ collapsedWidth = NarrowOptions.collapsedWidth
    /\ layouts = <<>>
    /\ iter = 0
    /\ passes = 0
    /\ pc = "call"
    /\ ok = FALSE
    /\ PortraitIdle
    /\ RowsIdle
    /\ ViewIdle
    /\ ChatIdle

\* Lines 77-94: option defaults, the precondition, the sorted copy.
Enter ==
    /\ pc = "call"
    /\ IF ConfigError(collapsedWidth, maxWidth)
         THEN /\ pc' = "thrown"
              /\ UNCHANGED layouts
         ELSE /\ pc' = "loop"
              /\ layouts' = InitialLayouts(unsortedMilestones, expandedWidth)
    /\ iter' = 0
    /\ passes' = 0
    /\ ok' = FALSE
    /\ UNCHANGED <<unsortedMilestones, maxWidth, expandedWidth, collapsedWidth>>
    /\ UNCHANGED <<portraitVars, rowVars, viewVars, chatVars>>

\* Lines 131-183: one iteration of the collapse loop, or the fallback return.
Iterate ==
    /\ pc = "loop"
    /\ IF iter < Len(layouts) + 2
         THEN LET b == LoopBody(layouts, maxWidth, collapsedWidth)
              IN /\ passes' = passes + 1
                 /\ layouts' = b.layouts
                 /\ pc' = IF b.outcome = "continue" THEN "loop" ELSE "returned"
                 /\ ok' = (b.outcome = "ok")
                 /\ iter' = IF b.outcome = "continue" THEN iter + 1 ELSE iter
         ELSE /\ pc' = "returned"
              /\ ok' = FALSE
              /\ UNCHANGED <<layouts, iter, passes>>
    /\ UNCHANGED <<unsortedMilestones, maxWidth, expandedWidth, collapsedWidth>>
    /\ UNCHANGED <<portraitVars, rowVars, viewVars, chatVars>>

Next == Enter \/ Iterate

Spec == Init /\ [][Next]_vars

----------------------------------------------------------------------------
(* The TimelinePortrait component: layoutPortraitMilestones, computeGanttBars *)

\* The days of the timeline (days.length = totalDays).
Days == 0..19
totalDays == Cardinality(Days)

\* position: (d.index / totalDays) * 100
Position(index) == (index * 100) \div totalDays

MILESTONE_HEIGHT == 24
STEM_BASE_WIDTH == 48

\* !!m.color : "none" stands for an absent color.
Truthy(color) == color # "none"

\* Window sizes of a portrait viewport (width <= height), and what
\* getBoundingClientRect() can give for the milestones container.
WindowSizes ==
    {[width |-> 40, height |-> 400], [width |-> 100, height |-> 400],
     [width |-> 240, height |-> 400], [width |-> 400, height |-> 800]}
RectLefts == {190}
RectHeights == {300, 600}

\* The point milestones handed in as baseMilestones: days in index order.
PointDays == {5, 6, 7}
Colors == {"none", "pink", "subtle"}
BaseMilestone(index, color) ==
    [index |-> index, position |-> Position(index), color |-> color]

RECURSIVE PointSeqs(_)
PointSeqs(ds) ==
    IF ds = {} THEN {<<>>}
    ELSE LET d == CHOOSE x \in ds : \A y \in ds : y <= x
             rest == PointSeqs(ds \ {d})
         IN rest \cup {Append(r, BaseMilestone(d, c)) : r \in rest, c \in Colors}

\* The range milestones handed in as rangeMilestoneLookup, in key order.
RangeLookups ==
    {<<>>,
     <<[label |-> "A", startIndex |-> 4, endIndex |-> 8, color |-> "none"],
       [label |-> "B", startIndex |-> 5, endIndex |-> 9, color |-> "pink"]>>}

\* Lines 186-219.
layoutPortraitMilestones(ms, availableWidth, containerHeight) ==
    IF Len(ms) = 0 \/ availableWidth <= 0 \/ containerHeight <= 0
      THEN [thrown |-> FALSE, value |-> <<>>, ok |-> TRUE]
      ELSE LET inputLayouts ==
                   [i \in 1..Len(ms) |->
                      [top |-> (ms[i].position * containerHeight) \div 100
                                  - MILESTONE_HEIGHT \div 2,
                       height |-> MILESTONE_HEIGHT,
                       isColoured |-> Truthy(ms[i].color)] @@ ms[i]]
               r == layoutMilestonesCore(inputLayouts,
                                         availableWidth - STEM_BASE_WIDTH,
                                         EXPANDED_WIDTH, COLLAPSED_WIDTH)
           IN [thrown |-> r.thrown,
               ok |-> r.ok,
               value |-> [i \in 1..Len(r.layouts) |->
                            [topPx |-> (r.layouts[i].position * containerHeight) \div 100,
                             leftPx |-> r.layouts[i].left,
                             expanded |-> ~r.layouts[i].collapsed] @@ r.layouts[i]]]

\* bars.sort((a, b) => a.startPosition - b.startPosition)
RECURSIVE InsertByStartPosition(_, _)
InsertByStartPosition(x, s) ==
    IF s = <<>> THEN <<x>>
    ELSE IF Head(s).startPosition <= x.startPosition
      THEN <<Head(s)>> \o InsertByStartPosition(x, Tail(s))
    ELSE <<x>> \o s

RECURSIVE SortByStartPosition(_)
SortByStartPosition(s) ==
    IF s = <<>> THEN <<>>
    ELSE InsertByStartPosition(s[Len(s)], SortByStartPosition(SubSeq(s, 1, Len(s) - 1)))

\* Lines 237-256: the bars, from the day indices of the ranges.
GanttBarsOf(lookup) ==
    SortByStartPosition(
        [i \in 1..Len(lookup) |->
           [label |-> lookup[i].label,
            startPosition |-> Position(lookup[i].startIndex),
            endPosition |-> Position(lookup[i].endIndex),
            width |-> Position(lookup[i].endIndex) - Position(lookup[i].startIndex),
            color |-> lookup[i].color,
            startIndex |-> lookup[i].startIndex,
            endIndex |-> lookup[i].endIndex]])

\* Mutation of computeGanttBars: the bar width is not restored from barWidth,
\* the width the label layout set is returned.
computeGanttBarsLabelWidth(lookup, containerHeight, mw) ==
    LET bars == GanttBarsOf(lookup)
        labelInputs ==
            [i \in 1..Len(bars) |->
               [top |-> (((bars[i].startPosition + bars[i].endPosition) \div 2)
                            * containerHeight) \div 100 - MILESTONE_HEIGHT \div 2,
                height |-> MILESTONE_HEIGHT,
                isColoured |-> Truthy(bars[i].color)] @@ bars[i]]
        r == layoutMilestonesCore(labelInputs, mw, EXPANDED_WIDTH, COLLAPSED_WIDTH)
    IN [thrown |-> r.thrown,
        ok |-> r.ok,
        value |-> [i \in 1..Len(r.layouts) |->
                     [labelLeftPx |-> r.layouts[i].left,
                      labelExpanded |-> ~r.layouts[i].collapsed] @@ r.layouts[i]]]

\* Lines 226-284.
computeGanttBars(lookup, containerHeight, mw) ==
    LET bars == GanttBarsOf(lookup)
        labelInputs ==
            [i \in 1..Len(bars) |->
               [barWidth |-> bars[i].width,
                top |-> (((bars[i].startPosition + bars[i].endPosition) \div 2)
                            * containerHeight) \div 100 - MILESTONE_HEIGHT \div 2,
                height |-> MILESTONE_HEIGHT,
                isColoured |-> Truthy(bars[i].color)] @@ bars[i]]
        r == layoutMilestonesCore(labelInputs, mw, EXPANDED_WIDTH, COLLAPSED_WIDTH)
    IN [thrown |-> r.thrown,
        ok |-> r.ok,
        value |-> [i \in 1..Len(r.layouts) |->
                     [width |-> r.layouts[i].barWidth,
                      labelLeftPx |-> r.layouts[i].left,
                      labelExpanded |-> ~r.layouts[i].collapsed] @@ r.layouts[i]]]

\* Lines 340-343: the measured size, or the fallback until it is measured.
AvailableWidth ==
    IF portraitLayout # Null THEN portraitLayout.width
    ELSE (windowSize.width * 35) \div 100

ContainerHeight ==
    IF portraitLayout # Null THEN portraitLayout.height
    ELSE (windowSize.height * 85) \div 100

\* Line 354.
MaxGanttLabelWidth == (windowSize.width * 40) \div 100

InitPortrait ==
    /\ CoreIdle
    /\ RowsIdle
    /\ ViewIdle
    /\ ChatIdle
    /\ windowSize \in WindowSizes
    /\ portraitLayout = Null
    /\ baseMilestones \in PointSeqs(PointDays)
    /\ rangeMilestoneLookup \in RangeLookups
    /\ milestones = <<>>
    /\ coreOk = TRUE
    /\ ganttBars = <<>>
    /\ effectDeps = Null
    /\ view = "dirty"

\* Lines 340-359: one render of the component. An exception of either layout
\* call leaves the render unfinished.
Render ==
    /\ view = "dirty"
    /\ LET m == layoutPortraitMilestones(baseMilestones, AvailableWidth, ContainerHeight)
           g == computeGanttBars(rangeMilestoneLookup, ContainerHeight, MaxGanttLabelWidth)
       IN IF m.thrown \/ g.thrown
            THEN /\ view' = "crashed"
                 /\ UNCHANGED <<milestones, coreOk, ganttBars>>
            ELSE /\ view' = "rendered"
                 /\ milestones' = m.value
                 /\ coreOk' = m.ok
                 /\ ganttBars' = g.value
    /\ UNCHANGED <<windowSize, portraitLayout, baseMilestones,
                   rangeMilestoneLookup, effectDeps>>
    /\ UNCHANGED <<coreVars, rowVars, viewVars, chatVars>>

\* Lines 330-338: the layout effect measures the container after a render whose
\* window size differs from the one it last ran with.
LayoutEffect ==
    /\ view = "rendered"
    /\ effectDeps # windowSize
    /\ \E left \in RectLefts, height \in RectHeights :
          portraitLayout' = [width |-> windowSize.width - left - 10,
                             height |-> height]
    /\ effectDeps' = windowSize
    /\ view' = "dirty"
    /\ UNCHANGED <<windowSize, baseMilestones, rangeMilestoneLookup,
                   milestones, coreOk, ganttBars>>
    /\ UNCHANGED <<coreVars, rowVars, viewVars, chatVars>>

\* The windowSize prop changes: the component renders again.
Resize ==
    /\ view = "rendered"
    /\ effectDeps = windowSize
    /\ \E ws \in WindowSizes :
          /\ ws # windowSize
          /\ windowSize' = ws
    /\ view' = "dirty"
    /\ UNCHANGED <<portraitLayout, baseMilestones, rangeMilestoneLookup,
                   milestones, coreOk, ganttBars, effectDeps>>
    /\ UNCHANGED <<coreVars, rowVars, viewVars, chatVars>>

NextPortrait == Render \/ LayoutEffect \/ Resize

SpecPortrait == InitPortrait /\ [][NextPortrait]_vars

----------------------------------------------------------------------------
(* Landscape lane assignment: assignRows *)

MILESTONE_PADDING == 20
EMOJI_WIDTH == 18
LANDSCAPE_MILESTONE_GAP == 8
maxSearch == 10

\* Container widths (windowSize.width - 120) and measured label text widths.
ContainerWidths == {100, 380, 400, 900}
TextWidths == {28, 70}

\* hasConflict: some occupied range of the row is within the gap of [leftPx, rightPx].
hasConflict(occupied, leftPx, rightPx) ==
    \E k \in 1..Len(occupied) :
        ~(rightPx + LANDSCAPE_MILESTONE_GAP < occupied[k].left
            \/ leftPx - LANDSCAPE_MILESTONE_GAP > occupied[k].right)

\* rowOccupancy.get(row) || []
OccupiedIn(rowOccupancy, row) ==
    IF row \in DOMAIN rowOccupancy THEN rowOccupancy[row] ELSE <<>>

\* for (const row of rowsToTry): the first row without conflict, else the
\* assignedRow carried in.
RECURSIVE TryRows(_, _, _, _, _)
TryRows(rowsToTry, rowOccupancy, leftPx, rightPx, assignedRow) ==
    IF rowsToTry = <<>> THEN assignedRow
    ELSE IF ~hasConflict(OccupiedIn(rowOccupancy, Head(rowsToTry)), leftPx, rightPx)
      THEN Head(rowsToTry)
    ELSE TryRows(Tail(rowsToTry), rowOccupancy, leftPx, rightPx, assignedRow)

\* for (distance = 0; distance < maxSearch; distance++): rows 0, +1, -1, +2, ...
RECURSIVE SearchRow(_, _, _, _, _)
SearchRow(distance, rowOccupancy, leftPx, rightPx, assignedRow) ==
    IF distance >= maxSearch THEN assignedRow
    ELSE LET rowsToTry == IF distance = 0 THEN <<0>> ELSE <<distance, -distance>>
             found == TryRows(rowsToTry, rowOccupancy, leftPx, rightPx, assignedRow)
         IN IF ~hasConflict(OccupiedIn(rowOccupancy, found), leftPx, rightPx)
              THEN found
              ELSE SearchRow(distance + 1, rowOccupancy, leftPx, rightPx, found)

\* sorted = [...withWidths].sort((a, b) => a.position - b.position)
RECURSIVE InsertByPosition(_, _)
InsertByPosition(x, s) ==
    IF s = <<>> THEN <<x>>
    ELSE IF Head(s).position <= x.position
      THEN <<Head(s)>> \o InsertByPosition(x, Tail(s))
    ELSE <<x>> \o s

RECURSIVE SortByPosition(_)
SortByPosition(s) ==
    IF s = <<>> THEN <<>>
    ELSE InsertByPosition(s[Len(s)], SortByPosition(SubSeq(s, 1, Len(s) - 1)))

LeftPx(m, cw) == (m.position * cw) \div 100 - m.width \div 2
RightPx(m, cw) == (m.position * cw) \div 100 + m.width \div 2

\* for (const milestone of sorted) { ... }: the rest of the loop.
RECURSIVE PlaceRows(_, _, _, _)
PlaceRows(sorted, cw, rowOccupancy, result) ==
    IF sorted = <<>> THEN result
    ELSE LET milestone == Head(sorted)
             leftPx == LeftPx(milestone, cw)
             rightPx == RightPx(milestone, cw)
             assignedRow == SearchRow(0, rowOccupancy, leftPx, rightPx, 0)
             occupied == Append(OccupiedIn(rowOccupancy, assignedRow),
                                [left |-> leftPx, right |-> rightPx])
         IN PlaceRows(Tail(sorted), cw,
                      (assignedRow :> occupied) @@ rowOccupancy,
                      Append(result, [row |-> assignedRow] @@ milestone))

\* part_004 lines 81-158 (TimelineView.tsx 227-293 is the same function).
assignRows(ms, cw, tw, emoji) ==
    LET withWidths ==
            [i \in 1..Len(ms) |->
               [width |-> tw[i] + MILESTONE_PADDING + (IF emoji THEN EMOJI_WIDTH ELSE 0)]
                 @@ ms[i]]
    IN PlaceRows(SortByPosition(withWidths), cw, <<>>, <<>>)

\* days.filter(...).map(d => ({...d, position})): the point milestones of
\* the days ds, in index order.
RECURSIVE BasicOf(_)
BasicOf(ds) ==
    IF ds = {} THEN <<>>
    ELSE LET last == CHOOSE d \in ds : \A e \in ds : e <= d
         IN Append(BasicOf(ds \ {last}), [index |-> last, position |-> Position(last)])

\* Days of a configuration whose labels differ in length: two milestones at
\* the start and two near the end of the timeline.
MixedDays == {0, 1, 17, 18}

\* Window heights; the portrait container is 100 less.
ScreenHeights == {140, 300}

PORTRAIT_EMOJI_HEIGHT == 26
PORTRAIT_MILESTONE_GAP == 2

\* occupied.some(range => !(bottomPx + GAP < range.top || topPx - GAP > range.bottom))
hasColumnConflict(occupied, topPx, bottomPx) ==
    \E k \in 1..Len(occupied) :
        ~(bottomPx + PORTRAIT_MILESTONE_GAP < occupied[k].top
            \/ topPx - PORTRAIT_MILESTONE_GAP > occupied[k].bottom)

\* let assignedColumn = 0; for (distance = 0; distance < maxColumns; distance++):
\* the first column without conflict, else column 0.
RECURSIVE SearchColumn(_, _, _, _, _)
SearchColumn(distance, columnOccupancy, topPx, bottomPx, maxColumns) ==
    IF distance >= maxColumns THEN 0
    ELSE IF ~hasColumnConflict(OccupiedIn(columnOccupancy, distance), topPx, bottomPx)
      THEN distance
    ELSE SearchColumn(distance + 1, columnOccupancy, topPx, bottomPx, maxColumns)

TopPx(m, containerHeight) ==
    (m.position * containerHeight) \div 100 - PORTRAIT_EMOJI_HEIGHT \div 2
BottomPx(m, containerHeight) ==
    (m.position * containerHeight) \div 100 + PORTRAIT_EMOJI_HEIGHT \div 2

\* for (const milestone of sorted) { ... }: the rest of the first pass.
RECURSIVE PlaceColumns(_, _, _, _, _)
PlaceColumns(sorted, containerHeight, maxColumns, columnOccupancy, result) ==
    IF sorted = <<>> THEN result
    ELSE LET milestone == Head(sorted)
             topPx == TopPx(milestone, containerHeight)
             bottomPx == BottomPx(milestone, containerHeight)
             assignedColumn == SearchColumn(0, columnOccupancy, topPx, bottomPx, maxColumns)
             occupied == Append(OccupiedIn(columnOccupancy, assignedColumn),
                                [top |-> topPx, bottom |-> bottomPx])
         IN PlaceColumns(Tail(sorted), containerHeight, maxColumns,
                         (assignedColumn :> occupied) @@ columnOccupancy,
                         Append(result, [column |-> assignedColumn,
                                         height |-> PORTRAIT_EMOJI_HEIGHT,
                                         expanded |-> FALSE] @@ milestone))

\* TimelineView.tsx lines 80-127: the column pass. The passes after it
\* (lines 195-223) set expanded on some of the milestones and leave the
\* columns as they are.
assignPortraitColumns(ms, containerHeight, screenWidth, maxColumns) ==
    PlaceColumns(SortByPosition(ms), containerHeight, maxColumns, <<>>, <<>>)

\* windowSize.width <= 400 ? 2 : windowSize.width <= 500 ? 3 : 10
MaxColumnsOf(width) == IF width <= 400 THEN 2 ELSE IF width <= 500 THEN 3 ELSE 10

\* containerWidth = windowSize.width - 120
ScreenWidth == containerWidth + 120

InitRows ==
    /\ CoreIdle
    /\ PortraitIdle
    /\ ViewIdle
    /\ ChatIdle
    /\ \/ rowInput = <<>> /\ textWidth = <<>>
       \/ \E ds \in SUBSET MixedDays :
             /\ rowInput = BasicOf(ds)
             /\ textWidth \in [1..Cardinality(ds) -> TextWidths]
    /\ containerWidth \in ContainerWidths
    /\ hasEmoji \in BOOLEAN
    /\ rowResult = <<>>
    /\ screenHeight \in ScreenHeights
    /\ portraitMilestones = <<>>

\* The configuration gains a point milestone: on the next day, or evenly
\* spaced after the previous ones; its label is as wide as the first one's.
AddMilestone ==
    /\ \E index \in Days :
          /\ CASE Len(rowInput) = 0 -> index \in {0, 1}
               [] Len(rowInput) = 1 -> index - rowInput[1].index \in {1, 2}
               [] OTHER -> index - rowInput[Len(rowInput)].index
                              = rowInput[2].index - rowInput[1].index
          /\ rowInput' = Append(rowInput, [index |-> index, position |-> Position(index)])
    /\ \E w \in TextWidths :
          /\ Len(textWidth) > 0 => w = textWidth[1]
          /\ textWidth' = Append(textWidth, w)
    /\ UNCHANGED <<containerWidth, hasEmoji, rowResult,
                   screenHeight, portraitMilestones>>
    /\ UNCHANGED <<coreVars, portraitVars, viewVars, chatVars>>

\* part_004 lines 506-510, TimelineView.tsx lines 324-346: a render lays the
\* milestones out, in rows for the landscape view and in columns for the
\* portrait view.
LayoutLandscape ==
    /\ rowResult' = assignRows(rowInput, containerWidth, textWidth, hasEmoji)
    /\ portraitMilestones' = assignPortraitColumns(rowInput, screenHeight - 100,
                                                   ScreenWidth, MaxColumnsOf(ScreenWidth))
    /\ UNCHANGED <<rowInput, containerWidth, textWidth, hasEmoji, screenHeight>>
    /\ UNCHANGED <<coreVars, portraitVars, viewVars, chatVars>>

NextRows == AddMilestone \/ LayoutLandscape

SpecRows == InitRows /\ [][NextRows]_vars

----------------------------------------------------------------------------
(* App and TimelineView (part_004): from the milestones to the landscape layout *)

MaxMilestones == 2

\* A Date, by its day number. CONFIG.startDate is day 0, the timeline has the
\* days 0 .. totalDays - 1 and today is day daysPassed - 1.
Date(d) == [day |-> d]
startDate == Date(0)
daysPassed == 11

\* Math.ceil((end.getTime() - start.getTime()) / msPerDay) on whole days.
getDaysBetween(start, end) == end.day - start.day

\* The milestones a configuration is made of: two points on one day, a point
\* on a day of its own, a range that starts on the day of the two points, a
\* range on days of its own, and a range that ends after the due date (the
\* timeline has the days 0..19).
Milestones ==
    {[date |-> Date(5), endDate |-> Null, label |-> "a", color |-> "none"],
     [date |-> Date(5), endDate |-> Null, label |-> "b", color |-> "pink"],
     [date |-> Date(9), endDate |-> Null, label |-> "c", color |-> "none"],
     [date |-> Date(5), endDate |-> Date(8), label |-> "r", color |-> "pink"],
     [date |-> Date(2), endDate |-> Date(4), label |-> "s", color |-> "none"],
     [date |-> Date(18), endDate |-> Date(22), label |-> "t", color |-> "none"]}

\* The lists of n different milestones, in any order.
RECURSIVE MilestoneLists(_)
MilestoneLists(n) ==
    IF n = 0 THEN {<<>>}
    ELSE {Append(l, m) : l \in MilestoneLists(n - 1), m \in Milestones}

ConfigMilestones ==
    {l \in UNION {MilestoneLists(n) : n \in 0..MaxMilestones} :
        \A i, j \in 1..Len(l) : i # j => l[i] # l[j]}

\* milestones.sort((a, b) => a.date.getTime() - b.date.getTime())
RECURSIVE InsertByDate(_, _)
InsertByDate(x, s) ==
    IF s = <<>> THEN <<x>>
    ELSE IF Head(s).date.day <= x.date.day THEN <<Head(s)>> \o InsertByDate(x, Tail(s))
    ELSE <<x>> \o s

RECURSIVE SortByDate(_)
SortByDate(s) ==
    IF s = <<>> THEN <<>>
    ELSE InsertByDate(s[Len(s)], SortByDate(SubSeq(s, 1, Len(s) - 1)))

\* What generateRandomMilestones can return: milestones pushed in any order,
\* then sorted by date. (The program draws 15 to 30 of them; the model up to
\* MaxMilestones.)
generateRandomMilestones == {SortByDate(l) : l \in ConfigMilestones}

\* Landscape window sizes (width > height), and the width measureTextWidth
\* gives for every label.
LandscapeSizes == {[width |-> 520, height |-> 400], [width |-> 920, height |-> 400]}
LabelTextWidth == 28

\* App.tsx line 140.
activeMilestones ==
    IF randomMilestones # Null THEN randomMilestones.list ELSE configMilestones

\* App.tsx lines 143-151: lookup[startIndex] = {...} for each milestone in
\* turn, so the last milestone of a day is the one the day keeps.
RECURSIVE milestoneLookup(_)
milestoneLookup(ms) ==
    IF ms = <<>> THEN <<>>
    ELSE LET m == ms[Len(ms)]
             startIndex == getDaysBetween(startDate, m.date)
             endIndex == IF m.endDate # Null
                           THEN getDaysBetween(startDate, m.endDate)
                           ELSE startIndex
         IN (startIndex :> [label |-> m.label, color |-> m.color,
                            startIndex |-> startIndex, endIndex |-> endIndex])
              @@ milestoneLookup(SubSeq(ms, 1, Len(ms) - 1))

\* App.tsx lines 204-231: one DayInfo per day, with at most one annotation.
DaysOf(lookup) ==
    [k \in 1..totalDays |->
       LET i == k - 1
           isToday == i = daysPassed - 1
       IN [index |-> i,
           isToday |-> isToday,
           annotation |-> IF i \in DOMAIN lookup THEN lookup[i].label
                          ELSE IF isToday THEN "Today" ELSE "",
           color |-> IF i \in DOMAIN lookup THEN lookup[i].color ELSE "none"]]

\* rangeMilestoneLookup[label]
HasRange(lookup, label) == \E k \in 1..Len(lookup) : lookup[k].label = label

\* lookup[m.label] = {...}: a new key goes last, a known key keeps its place.
PutRange(lookup, e) ==
    IF HasRange(lookup, e.label)
      THEN [k \in 1..Len(lookup) |->
              IF lookup[k].label = e.label THEN e ELSE lookup[k]]
      ELSE Append(lookup, e)

\* part_004 lines 34-52: the entries in key order.
RECURSIVE buildRangeMilestoneLookup(_, _)
buildRangeMilestoneLookup(ms, start) ==
    IF ms = <<>> THEN <<>>
    ELSE LET m == ms[Len(ms)]
             rest == buildRangeMilestoneLookup(SubSeq(ms, 1, Len(ms) - 1), start)
         IN IF m.endDate # Null
              THEN PutRange(rest, [label |-> m.label,
                                   startIndex |-> getDaysBetween(start, m.date),
                                   endIndex |-> getDaysBetween(start, m.endDate),
                                   color |-> m.color])
              ELSE rest

\* part_004 lines 491-503: the days with an annotation that is neither
\* "Today" nor the label of a range milestone.
BaseMilestonesOf(ds, lookup) ==
    LET keep == {k \in 1..Len(ds) :
                    /\ ds[k].annotation # ""
                    /\ ds[k].annotation # "Today"
                    /\ ~HasRange(lookup, ds[k].annotation)}
        idx == FilterIdx(Len(ds), 1, keep)
    IN [i \in 1..Len(idx) |->
          [position |-> Position(ds[idx[i]].index)] @@ ds[idx[i]]]

isLandscape == windowSize.width > windowSize.height

\* part_004 lines 551-571: the bars of the ranges with their label widths,
\* sorted by start position (the bars themselves as in GanttBarsOf).
LandscapeBarsOf(lookup) ==
    LET bars == GanttBarsOf(lookup)
    IN [i \in 1..Len(bars) |->
          [labelWidth |-> LabelTextWidth + MILESTONE_PADDING + EMOJI_WIDTH] @@ bars[i]]

BAR_GAP == 4

\* occupied.some((range) => !(rightPx + gap < range.left || leftPx - gap > range.right))
hasConflictWithin(occupied, leftPx, rightPx, gap) ==
    \E k \in 1..Len(occupied) :
        ~(rightPx + gap < occupied[k].left \/ leftPx - gap > occupied[k].right)

\* for (let row = 0; row < occupancy.length + 1; row++): the first row without
\* conflict. Row r of the array is element r + 1 of the sequence.
RECURSIVE FirstFreeRow(_, _, _, _, _)
FirstFreeRow(occupancy, row, leftPx, rightPx, gap) ==
    IF row >= Len(occupancy) + 1 THEN 0
    ELSE IF ~hasConflictWithin(IF row < Len(occupancy) THEN occupancy[row + 1] ELSE <<>>,
                               leftPx, rightPx, gap)
      THEN row
    ELSE FirstFreeRow(occupancy, row + 1, leftPx, rightPx, gap)

\* if (!occupancy[row]) occupancy[row] = []; occupancy[row].push(range)
PushRange(occupancy, row, range) ==
    IF row < Len(occupancy)
      THEN [occupancy EXCEPT ![row + 1] = Append(@, range)]
      ELSE Append(occupancy, <<range>>)

\* part_004 lines 579-640: for (const bar of bars) { ... }
RECURSIVE PlaceBars(_, _, _, _, _)
PlaceBars(bars, cw, barRowOccupancy, labelRowOccupancy, result) ==
    IF bars = <<>> THEN result
    ELSE LET bar == Head(bars)
             barLeftPx == (bar.startPosition * cw) \div 100
             barRightPx == (bar.endPosition * cw) \div 100
             assignedBarRow ==
                 FirstFreeRow(barRowOccupancy, 0, barLeftPx, barRightPx, BAR_GAP)
             labelCenterPx == (barLeftPx + barRightPx) \div 2
             labelLeftPx == labelCenterPx - bar.labelWidth \div 2
             labelRightPx == labelCenterPx + bar.labelWidth \div 2
             assignedLabelRow ==
                 FirstFreeRow(labelRowOccupancy, 0, labelLeftPx, labelRightPx,
                              LANDSCAPE_MILESTONE_GAP)
         IN PlaceBars(Tail(bars), cw,
                      PushRange(barRowOccupancy, assignedBarRow,
                                [left |-> barLeftPx, right |-> barRightPx]),
                      PushRange(labelRowOccupancy, assignedLabelRow,
                                [left |-> labelLeftPx, right |-> labelRightPx]),
                      Append(result, [barRow |-> assignedBarRow,
                                      labelRow |-> assignedLabelRow] @@ bar))

\* part_004 lines 544-643, the body of the landscapeGanttBars memo.
LandscapeGanttBarsOf(lookup, width, landscape) ==
    IF ~landscape THEN <<>>
    ELSE PlaceBars(LandscapeBarsOf(lookup), width - 120, <<>>, <<>>, <<>>)

\* part_004 lines 506-510, the body of the landscapeMilestones memo. Every
\* label has an emoji in annotationEmojis.
LandscapeMilestonesOf(base, width, landscape) ==
    IF ~landscape THEN <<>>
    ELSE assignRows(base, width - 120, [i \in 1..Len(base) |-> LabelTextWidth], TRUE)

\* useMemo: the cached value unless a dependency differs from the last render's.
useMemo(fresh, deps, cached, cachedDeps) ==
    IF cachedDeps = deps THEN cached ELSE fresh

\* What stands for the identity of the milestones array, and of everything
\* recomputed exactly when it changes (milestoneLookup, days, annotationEmojis,
\* rangeMilestoneLookup, baseMilestones).
MilestonesDeps == <<activeMilestones>>
\* part_004 line 510: [baseMilestones, windowSize.width, annotationEmojis, isLandscape]
LandscapeDeps == <<activeMilestones, windowSize.width, isLandscape>>
\* part_004 line 643: [totalDays, windowSize.width, isLandscape]
GanttDeps == <<totalDays, windowSize.width, isLandscape>>

NoDeps == [milestones |-> <<>>, landscape |-> <<>>, gantt |-> <<>>]

InitView ==
    /\ CoreIdle
    /\ RowsIdle
    /\ ChatIdle
    /\ portraitLayout = Null
    /\ milestones = <<>>
    /\ coreOk = TRUE
    /\ ganttBars = <<>>
    /\ effectDeps = Null
    /\ view = "idle"
    /\ windowSize \in LandscapeSizes
    /\ configMilestones \in ConfigMilestones
    /\ randomMilestones = Null
    /\ days = <<>>
    /\ rangeMilestoneLookup = <<>>
    /\ baseMilestones = <<>>
    /\ landscapeMilestones = <<>>
    /\ landscapeGanttBars = <<>>
    /\ memoDeps = NoDeps
    /\ appView = "dirty"

\* One render of App and, in it, of TimelineView: every memo is taken from
\* the last render unless one of its dependencies changed.
RenderTimeline ==
    /\ appView = "dirty"
    /\ LET newDays == useMemo(DaysOf(milestoneLookup(activeMilestones)),
                              MilestonesDeps, days, memoDeps.milestones)
           newLookup == useMemo(buildRangeMilestoneLookup(activeMilestones, startDate),
                                MilestonesDeps, rangeMilestoneLookup,
                                memoDeps.milestones)
           newBase == useMemo(BaseMilestonesOf(newDays, newLookup),
                              MilestonesDeps, baseMilestones, memoDeps.milestones)
       IN /\ days' = newDays
          /\ rangeMilestoneLookup' = newLookup
          /\ baseMilestones' = newBase
          /\ landscapeMilestones' =
                useMemo(LandscapeMilestonesOf(newBase, windowSize.width, isLandscape),
                        LandscapeDeps, landscapeMilestones, memoDeps.landscape)
          /\ landscapeGanttBars' =
                useMemo(LandscapeGanttBarsOf(newLookup, windowSize.width, isLandscape),
                        GanttDeps, landscapeGanttBars, memoDeps.gantt)
    /\ memoDeps' = [milestones |-> MilestonesDeps, landscape |-> LandscapeDeps,
                    gantt |-> GanttDeps]
    /\ appView' = "rendered"
    /\ UNCHANGED <<windowSize, configMilestones, randomMilestones>>
    /\ UNCHANGED <<portraitLayout, milestones, coreOk, ganttBars, effectDeps, view>>
    /\ UNCHANGED <<coreVars, rowVars, chatVars>>

\* App.tsx lines 93-106: Cmd+; swaps the configured milestones for random
\* ones, or back. (The render a state change schedules runs before the next
\* event is handled.)
ToggleRandomMilestones ==
    /\ appView = "rendered"
    /\ \/ /\ randomMilestones = Null
          /\ \E l \in generateRandomMilestones : randomMilestones' = [list |-> l]
       \/ /\ randomMilestones # Null
          /\ randomMilestones' = Null
    /\ appView' = "dirty"
    /\ UNCHANGED <<windowSize, configMilestones, days, rangeMilestoneLookup,
                   baseMilestones, landscapeMilestones, landscapeGanttBars, memoDeps>>
    /\ UNCHANGED <<portraitLayout, milestones, coreOk, ganttBars, effectDeps, view>>
    /\ UNCHANGED <<coreVars, rowVars, chatVars>>

\* App.tsx lines 108-116: the window is resized (and stays landscape).
ResizeWindow ==
    /\ appView = "rendered"
    /\ \E ws \in LandscapeSizes :
          /\ ws # windowSize
          /\ windowSize' = ws
    /\ appView' = "dirty"
    /\ UNCHANGED <<configMilestones, randomMilestones, days, rangeMilestoneLookup,
                   baseMilestones, landscapeMilestones, landscapeGanttBars, memoDeps>>
    /\ UNCHANGED <<portraitLayout, milestones, coreOk, ganttBars, effectDeps, view>>
    /\ UNCHANGED <<coreVars, rowVars, chatVars>>

NextView == RenderTimeline \/ ToggleRandomMilestones \/ ResizeWindow

SpecView == InitView /\ [][NextView]_vars

----------------------------------------------------------------------------
(* The worker: POST /api/chat (part_008) and the GitHub service (part_009) *)

NumRequests == 2
Requests == 1..NumRequests

\* c.env.PIN, and the pins a request can carry.
PIN == "1234"
Pins == {"1234", "0000"}

\* A string the code inspects, as the sequence of its characters.
IsoDay == <<"2", "0", "2", "5", "-", "0", "3", "-", "0", "1">>
IsoDue == <<"2", "0", "2", "5", "-", "1", "2", "-", "0", "1">>
ShortDay == <<"1", "/", "3", "/", "2", "5">>
Missing == <<>>
Digits == {"0", "1", "2", "3", "4", "5", "6", "7", "8", "9"}

\* ISO_DATE_REGEX.test(s), /^\d{4}-\d{2}-\d{2}$/
ISO_DATE_REGEX(s) ==
    /\ Len(s) = 10
    /\ \A i \in 1..10 : IF i \in {5, 8} THEN s[i] = "-" ELSE s[i] \in Digits

\* A config text, by what JSON.parse and btoa make of it: parses says whether
\* it is JSON, config is the parsed value, latin1 whether every character is
\* in the range btoa accepts.
ConfigText(latin1, due, items) ==
    [parses |-> TRUE, latin1 |-> latin1,
     config |-> [startDate |-> IsoDay, dueDate |-> due, todayEmoji |-> "x",
                 milestones |-> [isArray |-> TRUE, items |-> items]]]

GoodMilestone == [date |-> IsoDay, endDate |-> Missing, label |-> "Scan", emoji |-> "x"]
BadRange == [date |-> IsoDay, endDate |-> ShortDay, label |-> "Trip", emoji |-> "x"]

InitialConfig == ConfigText(TRUE, IsoDue, <<>>)

\* The texts the model's LLM can put in its json block.
NewConfigs ==
    {[parses |-> FALSE, latin1 |-> TRUE],
     ConfigText(TRUE, IsoDue, <<GoodMilestone>>),
     ConfigText(FALSE, IsoDue, <<GoodMilestone>>),
     ConfigText(TRUE, Missing, <<GoodMilestone>>),
     ConfigText(TRUE, IsoDue, <<GoodMilestone, BadRange>>)}

Invalid(error) == [valid |-> FALSE, error |-> error]

\* part_009 lines 143-167: the first milestone that fails a check.
RECURSIVE validateMilestones(_, _)
validateMilestones(items, i) ==
    IF i > Len(items) THEN [valid |-> TRUE]
    ELSE LET m == items[i]
         IN IF m.date = Missing THEN Invalid("Milestone missing date")
            ELSE IF ~ISO_DATE_REGEX(m.date) THEN Invalid("Milestone invalid date format")
            ELSE IF m.endDate # Missing /\ ~ISO_DATE_REGEX(m.endDate)
              THEN Invalid("Milestone invalid endDate format")
            ELSE IF m.label = "" THEN Invalid("Milestone missing label")
            ELSE IF m.emoji = "" THEN Invalid("Milestone missing emoji")
            ELSE validateMilestones(items, i + 1)

\* part_009 lines 105-170.
validateConfig(configString) ==
    IF ~configString.parses THEN Invalid("Invalid JSON syntax")
    ELSE LET config == configString.config
         IN IF config.startDate = Missing THEN Invalid("Missing startDate")
            ELSE IF config.dueDate = Missing THEN Invalid("Missing dueDate")
            ELSE IF config.todayEmoji = "" THEN Invalid("Missing todayEmoji")
            ELSE IF ~config.milestones.isArray THEN Invalid("milestones must be an array")
            ELSE IF ~ISO_DATE_REGEX(config.startDate) THEN Invalid("Invalid startDate format")
            ELSE IF ~ISO_DATE_REGEX(config.dueDate) THEN Invalid("Invalid dueDate format")
            ELSE validateMilestones(config.milestones.items, 1)

\* Mutation of PinMatches: any pin is accepted.
PinMatchesAny(pin) == TRUE

\* part_008 line 121: pin !== c.env.PIN
PinMatches(pin) == pin = PIN

\* The responses of the handler.
Unauthorized == [status |-> 401, error |-> "Invalid PIN"]
ServerError == [status |-> 500, error |-> "Failed to process request"]
NotUpdated == [status |-> 200, configUpdated |-> FALSE]
UpdatedAt(commitUrl) == [status |-> 200, configUpdated |-> TRUE, commitUrl |-> commitUrl]

\* A request the worker has not received yet.
IdleRequest ==
    [pc |-> "idle", pin |-> "", currentConfig |-> 0, newConfig |-> Null,
     sha |-> 0, response |-> Null]

\* The handler returns: c.json(...).
Respond(r, response) ==
    requests' = [requests EXCEPT ![r].pc = "done", ![r].response = response]

InitChat ==
    /\ CoreIdle
    /\ PortraitIdle
    /\ RowsIdle
    /\ ViewIdle
    /\ github = <<[content |-> InitialConfig, by |-> 0, from |-> 0]>>
    /\ requests = [r \in Requests |-> IdleRequest]

\* part_008 lines 117-127: a request arrives; the PIN check, then the fetch of
\* getConfig is under way.
Receive(r) ==
    /\ requests[r].pc = "idle"
    /\ \E pin \in Pins :
          IF ~PinMatches(pin)
            THEN requests' = [requests EXCEPT ![r].pc = "done", ![r].pin = pin,
                                              ![r].response = Unauthorized]
            ELSE requests' = [requests EXCEPT ![r].pc = "getConfig", ![r].pin = pin]
    /\ UNCHANGED github
    /\ UNCHANGED <<coreVars, portraitVars, rowVars, viewVars>>

\* part_009 lines 12-32: GitHub answers getConfig. The content read is the
\* head version; then editConfig calls Mistral.
GetConfigResponds(r) ==
    /\ requests[r].pc = "getConfig"
    /\ \/ Respond(r, ServerError)
       \/ requests' = [requests EXCEPT ![r].pc = "editConfig",
                                       ![r].currentConfig = Len(github)]
    /\ UNCHANGED github
    /\ UNCHANGED <<coreVars, portraitVars, rowVars, viewVars>>

\* mistral.ts lines 9-58 and part_008 lines 136-158: Mistral answers. Without
\* a json block the reply is returned as is; with one the text is validated
\* and, if valid, commitConfig starts with its GET.
EditConfigResponds(r) ==
    /\ requests[r].pc = "editConfig"
    /\ \/ Respond(r, ServerError)
       \/ Respond(r, NotUpdated)
       \/ \E text \in NewConfigs :
             LET newConfig == [text |-> text, from |-> requests[r].currentConfig]
             IN IF ~validateConfig(text).valid
                  THEN requests' = [requests EXCEPT ![r].pc = "done",
                                                    ![r].newConfig = newConfig,
                                                    ![r].response = NotUpdated]
                  ELSE requests' = [requests EXCEPT ![r].pc = "commitGet",
                                                    ![r].newConfig = newConfig]
    /\ UNCHANGED github
    /\ UNCHANGED <<coreVars, portraitVars, rowVars, viewVars>>

\* part_009 lines 40-73: GitHub answers the GET of commitConfig with the SHA
\* of the head version; btoa(newContent) throws on a character outside
\* Latin-1; otherwise the PUT is sent.
CommitGetResponds(r) ==
    /\ requests[r].pc = "commitGet"
    /\ \/ Respond(r, ServerError)
       \/ IF ~requests[r].newConfig.text.latin1
            THEN Respond(r, ServerError)
            ELSE requests' = [requests EXCEPT ![r].pc = "commitPut",
                                              ![r].sha = Len(github)]
    /\ UNCHANGED <<coreVars, portraitVars, rowVars, viewVars>>
    /\ UNCHANGED github

\* part_009 lines 59-81: GitHub handles the PUT. It commits when the SHA sent
\* is the head version's and answers with the commit; any other answer is
\* not ok and commitConfig throws.
CommitPutResponds(r) ==
    /\ requests[r].pc = "commitPut"
    /\ \/ /\ Respond(r, ServerError)
          /\ UNCHANGED github
       \/ /\ requests[r].sha = Len(github)
          /\ github' = Append(github, [content |-> requests[r].newConfig.text,
                                       by |-> r,
                                       from |-> requests[r].newConfig.from])
          /\ Respond(r, UpdatedAt(Len(github) + 1))
    /\ UNCHANGED <<coreVars, portraitVars, rowVars, viewVars>>

NextChat ==
    \E r \in Requests :
        \/ Receive(r)
        \/ GetConfigResponds(r)
        \/ EditConfigResponds(r)
        \/ CommitGetResponds(r)
        \/ CommitPutResponds(r)

SpecChat == InitChat /\ [][NextChat]_vars

----------------------------------------------------------------------------
(* Properties of layoutMilestonesCore *)

Returned == pc = "returned"

N == Len(layouts)

Apart(a, b) ==
    \/ Right(a) + MILESTONE_GAP <= b.left
    \/ Right(b) + MILESTONE_GAP <= a.left

\* The placement pass run on the sorted items with a given collapsed/expanded
\* choice per item (cfg[i] = TRUE: item i is collapsed).
PassWith(cfg) ==
    LET base == InitialLayouts(unsortedMilestones, expandedWidth)
    IN runPass([i \in 1..Len(base) |->
                  [base[i] EXCEPT !.collapsed = cfg[i],
                                  !.width = IF cfg[i] THEN collapsedWidth
                                            ELSE expandedWidth]])

AllCollapsedRight ==
    MaxRightOf(PassWith([i \in 1..Len(unsortedMilestones) |-> TRUE]))

NumExpanded(ls) == Cardinality({i \in 1..Len(ls) : ~ls[i].collapsed})

\* C1: in every returned layout (ok true or false) any two distinct items
\* whose vertical extents conflict have horizontal intervals at least
\* MILESTONE_GAP apart.
C1_NoOverlap ==
    Returned =>
        \A i, j \in 1..N :
            (i # j /\ overlapsY(layouts[i], layouts[j]))
                => Apart(layouts[i], layouts[j])

C1_Witness ==
    /\ Returned
    /\ ~ok
    /\ \E i, j \in 1..N :
          i # j /\ overlapsY(layouts[i], layouts[j]) /\ layouts[j].left > 0

\* C2: when the result is ok:true every item satisfies
\* left + width <= maxWidth.
C2_Containment ==
    (Returned /\ ok) => \A i \in 1..N : Right(layouts[i]) <= maxWidth

C2_Witness ==
    /\ Returned
    /\ ok
    /\ N >= 2
    /\ \E i \in 1..N : layouts[i].collapsed
    /\ \E i \in 1..N : Right(layouts[i]) = maxWidth

\* C5: when maxWidth >= collapsedWidth and the pass with every item collapsed
\* exceeds maxWidth, the call does not throw and returns ok:false.
C5_InfeasibleIsNotOk ==
    (pc \in {"returned", "thrown"}
        /\ maxWidth >= collapsedWidth
        /\ AllCollapsedRight > maxWidth)
      => (Returned /\ ~ok)

C5_Witness ==
    /\ Returned
    /\ ~ok
    /\ maxWidth >= collapsedWidth
    /\ AllCollapsedRight > maxWidth
    /\ N >= 2

\* C6: the call throws exactly when collapsedWidth > maxWidth, before any
\* placement is computed; with collapsedWidth <= maxWidth it never throws.
C6_FailFast ==
    /\ (pc = "thrown") <=> (pc # "call" /\ collapsedWidth > maxWidth)
    /\ (pc = "thrown") => (passes = 0 /\ layouts = <<>>)

C6_Witness ==
    /\ pc = "thrown"
    /\ Len(unsortedMilestones) > 0

\* C8: two vertically conflicting items, one coloured and one not, and a
\* maxWidth that fits one expanded plus one collapsed item but not two expanded
\* ones: the coloured item is returned expanded and the other collapsed,
\* whichever comes first in top order.
C8_PriorityPreference ==
    (/\ Returned
     /\ N = 2
     /\ overlapsY(layouts[1], layouts[2])
     /\ layouts[1].isColoured # layouts[2].isColoured
     /\ collapsedWidth + MILESTONE_GAP + expandedWidth <= maxWidth
     /\ maxWidth < 2 * expandedWidth + MILESTONE_GAP)
      => (ok /\ \A i \in 1..2 : layouts[i].collapsed = ~layouts[i].isColoured)

C8_Witness ==
    /\ Returned
    /\ N = 2
    /\ overlapsY(layouts[1], layouts[2])
    /\ layouts[1].isColoured
    /\ ~layouts[2].isColoured
    /\ collapsedWidth + MILESTONE_GAP + expandedWidth <= maxWidth
    /\ maxWidth < 2 * expandedWidth + MILESTONE_GAP
    /\ layouts[2].collapsed

\* C9: the collapse loop runs at most n + 2 placement passes, every iteration
\* that does not return collapses one item that was still expanded, and no
\* collapsed item is expanded again.
C9_MonotonicCollapse ==
    [][/\ passes' <= Len(layouts') + 2
       /\ (pc = "loop" /\ pc' = "loop")
            => \E k \in 1..N :
                  /\ ~layouts[k].collapsed
                  /\ layouts'[k].collapsed
                  /\ layouts'[k].width = collapsedWidth
                  /\ \A m \in (1..N) \ {k} :
                        layouts'[m].collapsed = layouts[m].collapsed
       /\ pc = "loop"
            => \A k \in 1..N : layouts[k].collapsed => layouts'[k].collapsed]_vars

C9_Witness ==
    /\ Returned
    /\ N >= 2
    /\ passes = N + 1
    /\ \A k \in 1..N : layouts[k].collapsed

\* C10: among all collapsed/expanded choices whose placement pass fits within
\* maxWidth, the layout returned with ok:true has the most expanded items.
C10_MaxExpanded ==
    (Returned /\ ok) =>
        \A cfg \in [1..N -> BOOLEAN] :
            Fits(MaxRightOf(PassWith(cfg)), maxWidth)
                => Cardinality({i \in 1..N : ~cfg[i]}) <= NumExpanded(layouts)

\* The scenario of three items at positions 10, 12 and 90.
InScenario ==
    /\ unsortedMilestones \in ScenarioLists
    /\ maxWidth = ScenarioOptions.maxWidth
    /\ expandedWidth = ScenarioOptions.expandedWidth
    /\ collapsedWidth = ScenarioOptions.collapsedWidth

\* C16 as stated: in the scenario the items at 10 and 12 (layouts 1 and 2 in
\* top order) do not overlap at a shared offset, and the item at 90 ends
\* fully expanded at offset 0.
C16_ScenarioAsStated ==
    (Returned /\ InScenario) =>
        /\ Apart(layouts[1], layouts[2])
        /\ layouts[3].left = 0
        /\ ~layouts[3].collapsed
        /\ layouts[3].width = expandedWidth

\* C16 amended: in the scenario the result is ok:true with all three items
\* collapsed (the expanded width 80 exceeds the extent 60): those at 10 and 12
\* at the offsets 0 and 28, the item at 90 at offset 0.
C16_ScenarioCollapsed ==
    (Returned /\ InScenario) =>
        /\ ok
        /\ \A i \in 1..3 : layouts[i].collapsed /\ layouts[i].width = collapsedWidth
        /\ layouts[1].left = 0
        /\ layouts[2].left = collapsedWidth + MILESTONE_GAP
        /\ layouts[3].left = 0

C16_Witness ==
    /\ Returned
    /\ InScenario
    /\ passes = 4
    /\ layouts[3].collapsed

\* C17: with no milestones and collapsedWidth <= maxWidth the call does not
\* throw and returns {layouts: [], ok: true}; layoutPortraitMilestones
\* returns the empty list for an empty list at any dimensions, those for
\* which the core would throw included.
C17_EmptyListIsOk ==
    /\ (/\ Len(unsortedMilestones) = 0
        /\ collapsedWidth <= maxWidth
        /\ pc \in {"returned", "thrown"})
          => (Returned /\ ok /\ layouts = <<>>)
    /\ \A w, h \in {-1, 0, 30, 400} :
          layoutPortraitMilestones(<<>>, w, h)
              = [thrown |-> FALSE, value |-> <<>>, ok |-> TRUE]

C17_Witness ==
    /\ Returned
    /\ ok
    /\ Len(unsortedMilestones) = 0
    /\ passes = 1

\* C19: in a layout returned with ok:true no collapsed item could be shown
\* expanded: with any one collapsed item set back to expandedWidth the
\* placement pass exceeds maxWidth.
C19_NoCollapsedItemFits ==
    (Returned /\ ok) =>
        \A k \in 1..N :
            layouts[k].collapsed =>
                ~Fits(MaxRightOf(runPass([layouts EXCEPT ![k].collapsed = FALSE,
                                                         ![k].width = expandedWidth])),
                      maxWidth)

\* The items findCandidate may collapse after a pass: the expanded ones that
\* Y-overlap an item at the maximal right edge; of these the non-coloured
\* ones if there are any.
CollapsePool(placed) ==
    LET atMax == AtMaxRight(placed, MaxRightOf(placed))
        candidates == {i \in Expanded(placed) :
                          \E m \in atMax : overlapsY(placed[m], placed[i])}
    IN IF candidates \cap NonColoured(placed) # {}
         THEN candidates \cap NonColoured(placed)
         ELSE candidates

\* C20: when a pass overflows maxWidth, the item collapsed next is the one of
\* smallest left among the non-coloured expanded items that Y-overlap an item
\* at the maximal right edge, or among the coloured ones if there is no such
\* non-coloured item; of several with that left it is the first in top order.
C20_CollapsesLeftmostCandidate ==
    [][(pc = "loop" /\ iter < N + 2
          /\ ~Fits(MaxRightOf(runPass(layouts)), maxWidth))
        => LET placed == runPass(layouts)
               pool == CollapsePool(placed)
           IN IF pool = {}
                THEN pc' = "returned" /\ ~ok' /\ layouts' = placed
                ELSE \E k \in pool :
                        /\ \A j \in pool :
                              \/ placed[k].left < placed[j].left
                              \/ placed[k].left = placed[j].left /\ k <= j
                        /\ layouts' = [placed EXCEPT ![k].collapsed = TRUE,
                                                     ![k].width = collapsedWidth]
                        /\ pc' = "loop"]_vars

C20_Witness ==
    /\ pc = "loop"
    /\ iter = 1
    /\ \E k, j \in 1..N :
          /\ k < j
          /\ layouts[k].collapsed
          /\ LET before == [layouts EXCEPT ![k].collapsed = FALSE,
                                           ![k].width = expandedWidth]
             IN /\ {k, j} \subseteq CollapsePool(before)
                /\ before[j].left = before[k].left

\* Whether item i, put at x with the width it has in ls, keeps the gap from
\* every earlier item of ls that Y-overlaps it.
KeepsGapAt(ls, i, x) ==
    \A j \in 1..(i - 1) :
        overlapsY(ls[i], ls[j]) =>
            \/ x + ls[i].width + MILESTONE_GAP <= ls[j].left
            \/ ls[j].left + ls[j].width + MILESTONE_GAP <= x

\* The offsets at which the smallest free x can lie: the positions that keep
\* the gap form intervals closed on the left, which begin at 0 or one gap
\* behind the right edge of an earlier Y-overlapping item.
FreeStarts(ls, i) ==
    {0} \cup {ls[j].left + ls[j].width + MILESTONE_GAP :
                j \in {k \in 1..(i - 1) : overlapsY(ls[i], ls[k])}}

\* C21: all items start expanded with left 0, and after each placement pass
\* every item's left is the smallest x >= 0 at which its interval keeps the
\* gap from every earlier item that Y-overlaps it, as placed in that pass
\* (the widths are those the pass ran with).
C21_SmallestFreeOffset ==
    [][/\ (pc = "call" /\ pc' = "loop") =>
            \A i \in 1..Len(layouts') :
                /\ layouts'[i].left = 0
                /\ layouts'[i].width = expandedWidth
                /\ ~layouts'[i].collapsed
       /\ (pc = "loop" /\ iter < N + 2) =>
            LET placed == [i \in 1..N |-> [layouts[i] EXCEPT !.left = layouts'[i].left]]
            IN \A i \in 1..N :
                  /\ placed[i].left >= 0
                  /\ KeepsGapAt(placed, i, placed[i].left)
                  /\ \A x \in FreeStarts(placed, i) :
                        x < placed[i].left => ~KeepsGapAt(placed, i, x)]_vars

\* A pass has put an item behind an earlier one and a later item, which still
\* overlaps that one, back at 0 in front of it.
C21_Witness ==
    /\ pc \in {"loop", "returned"}
    /\ passes >= 1
    /\ \E i, k \in 1..N :
          /\ i < k
          /\ overlapsY(layouts[i], layouts[k])
          /\ layouts[i].left > 0
          /\ layouts[k].left = 0

\* C22: ok:false is returned only for an infeasible input: the placement pass
\* with every item collapsed exceeds maxWidth too.
C22_NotOkOnlyIfInfeasible ==
    (Returned /\ ~ok) => ~Fits(AllCollapsedRight, maxWidth)

\* C23: in a returned layout a coloured item is collapsed only if every
\* non-coloured item that Y-overlaps it is collapsed as well.
C23_ColouredLast ==
    Returned =>
        \A c \in Coloured(layouts) :
            layouts[c].collapsed =>
                \A u \in NonColoured(layouts) :
                    overlapsY(layouts[c], layouts[u]) => layouts[u].collapsed

\* The extents the core is called with.
AllMaxWidths == MaxWidths \cup NarrowMaxWidths \cup {ScenarioOptions.maxWidth}

\* C24: widening the extent never collapses more labels: every item that is
\* expanded in the result for maxWidth is expanded in the result for any
\* wider extent (items are identified by their place in top order).
C24_WiderKeepsExpanded ==
    Returned =>
        \A wider \in {w \in AllMaxWidths : w >= maxWidth} :
            LET r == layoutMilestonesCore(unsortedMilestones, wider,
                                          expandedWidth, collapsedWidth)
            IN /\ ~r.thrown
               /\ \A i \in 1..N : ~layouts[i].collapsed => ~r.layouts[i].collapsed

\* A result with an expanded and a collapsed item, where a wider extent of
\* the model expands more.
C24_Witness ==
    /\ Returned
    /\ \E i, k \in 1..N : ~layouts[i].collapsed /\ layouts[k].collapsed
    /\ \E wider \in {w \in AllMaxWidths : w > maxWidth} :
          NumExpanded(layoutMilestonesCore(unsortedMilestones, wider,
                                           expandedWidth, collapsedWidth).layouts)
              > NumExpanded(layouts)

\* Item i of ls Y-overlaps no other item.
Isolated(ls, i) == \A j \in 1..Len(ls) : j # i => ~overlapsY(ls[i], ls[j])

\* C25: an item that Y-overlaps no other item is returned with left 0, and
\* collapsed only if expandedWidth > maxWidth.
C25_IsolatedItemUntouched ==
    Returned =>
        \A i \in 1..N :
            Isolated(layouts, i) =>
                /\ layouts[i].left = 0
                /\ layouts[i].collapsed => expandedWidth > maxWidth

\* An isolated item is returned expanded next to others that were collapsed.
C25_Witness ==
    /\ Returned
    /\ \E i, k \in 1..N :
          /\ Isolated(layouts, i)
          /\ ~layouts[i].collapsed
          /\ layouts[k].collapsed

----------------------------------------------------------------------------
(* Properties of the callers *)

RenderedWidth(m) == IF m.expanded THEN EXPANDED_WIDTH ELSE COLLAPSED_WIDTH

\* C3: every milestone layoutPortraitMilestones hands to the rendering layer
\* lies inside the allotted width, leftPx + (expanded ? 120 : 24) <=
\* availableWidth - 48, also when the core reported ok:false.
C3_InsideAllottedWidth ==
    view = "rendered" =>
        \A i \in 1..Len(milestones) :
            milestones[i].leftPx + RenderedWidth(milestones[i])
                <= AvailableWidth - STEM_BASE_WIDTH

\* C4: in the result of assignRows no two milestones of the same row have
\* pixel intervals [center - width/2, center + width/2] within the 8px gap of
\* each other.
C4_NoRowOverlap ==
    \A i, j \in 1..Len(rowResult) :
        (i < j /\ rowResult[i].row = rowResult[j].row)
            => \/ RightPx(rowResult[i], containerWidth) + LANDSCAPE_MILESTONE_GAP
                    < LeftPx(rowResult[j], containerWidth)
               \/ LeftPx(rowResult[i], containerWidth) - LANDSCAPE_MILESTONE_GAP
                    > RightPx(rowResult[j], containerWidth)

\* C7: for every milestone set and every window size with positive width and
\* height the layout computation of a render completes without throwing.
C7_NeverCrashes == view # "crashed"

\* C26: in the result of assignPortraitColumns no two milestones of the same
\* column have collapsed boxes (26 high) within the 2px gap of each other.
C26_NoColumnOverlap ==
    \A i, j \in 1..Len(portraitMilestones) :
        (i < j /\ portraitMilestones[i].column = portraitMilestones[j].column)
            => \/ BottomPx(portraitMilestones[i], screenHeight - 100) + PORTRAIT_MILESTONE_GAP
                    < TopPx(portraitMilestones[j], screenHeight - 100)
               \/ TopPx(portraitMilestones[i], screenHeight - 100) - PORTRAIT_MILESTONE_GAP
                    > BottomPx(portraitMilestones[j], screenHeight - 100)

\* Milestones i and j of the result keep the gap of assignRows.
RowGapKept(i, j) ==
    \/ RightPx(rowResult[i], containerWidth) + LANDSCAPE_MILESTONE_GAP
          < LeftPx(rowResult[j], containerWidth)
    \/ LeftPx(rowResult[i], containerWidth) - LANDSCAPE_MILESTONE_GAP
          > RightPx(rowResult[j], containerWidth)

\* C27: assignRows uses the minimum number of rows: no assignment of the same
\* milestones to fewer rows keeps the gap between all same-row milestones
\* (checked for results of up to MaxLaneItems milestones).
C27_MinimumRows ==
    Len(rowResult) <= MaxLaneItems =>
        LET used == Cardinality({rowResult[i].row : i \in 1..Len(rowResult)})
        IN \A fewer \in 0..(used - 1) :
              ~\E f \in [1..Len(rowResult) -> 1..fewer] :
                  \A i, j \in 1..Len(rowResult) :
                      (i < j /\ f[i] = f[j]) => RowGapKept(i, j)

\* The milestones with every "subtle" colour taken away.
SubtleAsNone(ms) ==
    [i \in 1..Len(ms) |->
        [ms[i] EXCEPT !.color = IF @ = "subtle" THEN "none" ELSE @]]

\* C28: a milestone of colour "subtle" is laid out exactly like one with no
\* colour: it is a non-coloured collapse candidate, and it is collapsed
\* before any conflicting milestone that has another colour.
C28_SubtleIsLowPriority ==
    view = "rendered" =>
        LET plain == layoutPortraitMilestones(SubtleAsNone(baseMilestones),
                                              AvailableWidth, ContainerHeight).value
        IN /\ \A i \in 1..Len(milestones) :
                 /\ milestones[i].leftPx = plain[i].leftPx
                 /\ milestones[i].expanded = plain[i].expanded
           /\ \A i, j \in 1..Len(milestones) :
                 (/\ milestones[i].color = "subtle"
                  /\ milestones[j].color \notin {"none", "subtle"}
                  /\ overlapsY(milestones[i], milestones[j])
                  /\ ~milestones[j].expanded)
                    => ~milestones[i].expanded

----------------------------------------------------------------------------
(* Properties of App and TimelineView *)

\* The milestones of a list without endDate whose date is a day of the timeline.
PointMilestones(ms) ==
    {k \in 1..Len(ms) :
        /\ ms[k].endDate = Null
        /\ getDaysBetween(startDate, ms[k].date) \in Days}

PointsOnly(ms) == SelectSeq(ms, LAMBDA m : m.endDate = Null)

\* The point milestone layout of a render made from scratch.
PointLayoutOf(ms) ==
    LandscapeMilestonesOf(
        BaseMilestonesOf(DaysOf(milestoneLookup(ms)),
                         buildRangeMilestoneLookup(ms, startDate)),
        windowSize.width, isLandscape)

\* C14: computeGanttBars returns one bar per range milestone, with
\* startPosition, endPosition and width = endPosition - startPosition as given
\* by the start and end day indices, whatever the label layout did (label
\* offset, collapsed labels, maxWidth).
C14_BarsFromDayIndices ==
    view = "rendered" =>
        /\ Len(ganttBars) = Len(rangeMilestoneLookup)
        /\ \A k \in 1..Len(rangeMilestoneLookup) :
              \E i \in 1..Len(ganttBars) :
                  /\ ganttBars[i].label = rangeMilestoneLookup[k].label
                  /\ ganttBars[i].startPosition
                        = Position(rangeMilestoneLookup[k].startIndex)
                  /\ ganttBars[i].endPosition
                        = Position(rangeMilestoneLookup[k].endIndex)
                  /\ ganttBars[i].width
                        = Position(rangeMilestoneLookup[k].endIndex)
                            - Position(rangeMilestoneLookup[k].startIndex)

C14_Witness ==
    /\ view = "rendered"
    /\ \E i \in 1..Len(ganttBars) : ~ganttBars[i].labelExpanded
    /\ \E i \in 1..Len(ganttBars) : ganttBars[i].labelLeftPx > 0

\* C11: after the milestone set changed with the viewport unchanged, every
\* render hands on Gantt bars and a point milestone layout computed from the
\* current milestone set, never bars memoised from the previous set.
C11_RendersCurrentMilestones ==
    appView = "rendered" =>
        /\ landscapeGanttBars =
              LandscapeGanttBarsOf(buildRangeMilestoneLookup(activeMilestones, startDate),
                                   windowSize.width, isLandscape)
        /\ landscapeMilestones = PointLayoutOf(activeMilestones)

\* C12: the point milestone layout has exactly one entry for each milestone
\* without endDate whose date lies in the timeline, also when several
\* milestones fall on the same day.
C12_OneEntryPerPoint ==
    appView = "rendered" =>
        /\ Len(landscapeMilestones) = Cardinality(PointMilestones(activeMilestones))
        /\ \A k \in PointMilestones(activeMilestones) :
              Cardinality({i \in 1..Len(landscapeMilestones) :
                  /\ landscapeMilestones[i].annotation = activeMilestones[k].label
                  /\ landscapeMilestones[i].index
                        = getDaysBetween(startDate, activeMilestones[k].date)}) = 1

\* C13: no milestone with endDate appears in the point milestone layout, and
\* the layout is the one the same list gives with its range milestones
\* removed: presence, row and position of every point milestone are
\* unaffected by the range milestones of the list.
C13_RangesLeavePointsAlone ==
    appView = "rendered" =>
        /\ \A i \in 1..Len(landscapeMilestones), k \in 1..Len(activeMilestones) :
              activeMilestones[k].endDate # Null
                  => landscapeMilestones[i].annotation # activeMilestones[k].label
        /\ landscapeMilestones = PointLayoutOf(PointsOnly(activeMilestones))

\* C29: every time position the layout uses lies in [0, 100]: the position
\* of each point milestone and the startPosition and endPosition of each
\* Gantt bar, with startPosition <= endPosition.
C29_PositionsInRange ==
    appView = "rendered" =>
        /\ \A i \in 1..Len(landscapeMilestones) :
              /\ 0 <= landscapeMilestones[i].position
              /\ landscapeMilestones[i].position <= 100
        /\ \A i \in 1..Len(landscapeGanttBars) :
              /\ 0 <= landscapeGanttBars[i].startPosition
              /\ landscapeGanttBars[i].startPosition <= landscapeGanttBars[i].endPosition
              /\ landscapeGanttBars[i].endPosition <= 100

----------------------------------------------------------------------------
(* Properties of the worker *)

CommittedBy(r) == \E v \in 1..Len(github) : github[v].by = r

SaysUpdated(response) ==
    /\ response.status = 200
    /\ "configUpdated" \in DOMAIN response
    /\ response.configUpdated

C30_NoLostUpdate ==
    \A v \in 2..Len(github) : github[v].from = v - 1

====
